---- MODULE Spec2Model ----
(***************************************************************************)
(* Model of helpers/check-upstream.py: the upstream change-relevance       *)
(* checker.  Strings are modelled as sequences of chunks (a chunk is a     *)
(* piece of text that the program's string operations never split), so     *)
(* that replace(), startswith() and the regular expression are computed,   *)
(* not assumed.                                                            *)
(***************************************************************************)
EXTENDS Integers, Sequences, FiniteSets, TLC

VARIABLES
    pc,                   \* position of the process in main / in the function under study
    output,               \* what was printed so far (sequence of report events)
    exit_code,            \* process exit status, -1 while running
    error,                \* the exception that ended the run, "none" otherwise
    tagnames,             \* get_latest_releases: the list returned by `git tag --sort authordate`
    ubuntu_tag,           \* main: ubuntu_tag
    bugswarm_tag,         \* main: bugswarm_tag
    changed_files,        \* main: changed_files
    scripts_used,         \* main: scripts_used
    changed_scripts,      \* main: changed_scripts
    changed_hcls,         \* main: changed_hcls
    used_toolset_queries, \* main: used_toolset_queries
    changed_toolsets,     \* main: changed_toolsets
    todo,                 \* main: what is left of `for toolset_json in sorted(changed_toolsets)`
    toolset_json,         \* main: the loop variable toolset_json
    toolset_1,            \* compare_toolset_values: toolset_1
    toolset_2,            \* compare_toolset_values: toolset_2
    toolset_diffs,        \* main: toolset_diffs of the last call
    recommendation,       \* main: recommendation
    template22,           \* parsed content of ubuntu-22.04.pkr.hcl at the bugswarm commit
    template20,           \* parsed content of ubuntu-20.04.pkr.hcl at the bugswarm commit
    helper_scripts,       \* result of get_helper_scripts
    tmpl_scripts_used,    \* get_scripts_in_template: the local list scripts_used
    paths_in_repo,        \* get_scripts_in_template: paths_in_repo
    contents,             \* extract_jq_queries: contents of the script being scanned
    toolset_queries       \* extract_jq_queries: toolset_queries

mainVars == <<pc, output, exit_code, error, tagnames, ubuntu_tag, bugswarm_tag,
              changed_files, scripts_used, changed_scripts, changed_hcls,
              used_toolset_queries, changed_toolsets, todo, toolset_json,
              toolset_1, toolset_2, toolset_diffs, recommendation>>
depVars == <<template22, template20, helper_scripts>>
tmplVars == <<tmpl_scripts_used, paths_in_repo>>
rxVars == <<contents, toolset_queries>>
vars == <<mainVars, depVars, tmplVars, rxVars>>

----------------------------------------------------------------------------
\* Bounds of the model.
MaxTags == 3
MaxSteps == 2
MaxScriptsPerStep == 1
MaxPathLen == 3
MaxCollected == 1
MaxSegments == 3

----------------------------------------------------------------------------
\* Generic helpers.
Range(s) == {s[i] : i \in 1..Len(s)}

SeqsUpTo(S, n) == UNION {[1..k -> S] : k \in 0..n}

Injective(s) == \A i, j \in 1..Len(s) : s[i] = s[j] => i = j

Reverse(s) == [i \in 1..Len(s) |-> s[Len(s) + 1 - i]]

Max(a, b) == IF a >= b THEN a ELSE b

NoneVal == "None"

----------------------------------------------------------------------------
\* Text chunks.
TOKEN == "${path.root}/.."
REPO == "images/ubuntu"

\* Fixed paths of main.
ubuntu22_hcl == <<REPO, "/templates/ubuntu-22.04.pkr.hcl">>
ubuntu20_hcl == <<REPO, "/templates/ubuntu-20.04.pkr.hcl">>
ubuntu22_toolset == <<REPO, "/toolsets/toolset-2204.json">>
ubuntu20_toolset == <<REPO, "/toolsets/toolset-2004.json">>

\* Other files of the repository that the model knows.
ScriptA == <<REPO, "/scripts/build/install-a.sh">>
ScriptB == <<REPO, "/scripts/build/install-b.sh">>
HelperH == <<REPO, "/scripts/helpers/etc-environment.sh">>

\* The paths that the diff of line 131 can name.
RepoFiles == {ubuntu22_hcl, ubuntu20_hcl, ubuntu22_toolset, ubuntu20_toolset,
              ScriptA, HelperH}

\* The same scripts as a template names them.
TemplateScriptA == <<TOKEN, "/scripts/build/install-a.sh">>
TemplatePaths == {TemplateScriptA, ScriptB}

----------------------------------------------------------------------------
\* get_latest_releases

UbuntuPrefix == "ubuntu22/"
BugswarmPrefix == "bugswarm/"

Tag(family, version) == [family |-> family, version |-> version]

TagNames == {Tag(UbuntuPrefix, "1"), Tag(UbuntuPrefix, "2"),
             Tag(BugswarmPrefix, "1"), Tag(BugswarmPrefix, "2"),
             Tag("ubuntu20/", "1")}

TagLists == {s \in SeqsUpTo(TagNames, MaxTags) : Injective(s)}

\* A variable that holds no tag.
NoTag == Tag("", "")

\* name.startswith(prefix): a tag name is its family prefix followed by a version.
StartsWith(name, prefix) == name.family = prefix

\* next(name for name in it if name.startswith(prefix)) on the iterator `it`:
\* the first match and what is left of the iterator, or StopIteration.
RECURSIVE NextMatch(_, _)
NextMatch(it, prefix) ==
    IF it = <<>> THEN [found |-> FALSE, name |-> NoTag, rest |-> <<>>]
    ELSE IF StartsWith(Head(it), prefix)
         THEN [found |-> TRUE, name |-> Head(it), rest |-> Tail(it)]
         ELSE NextMatch(Tail(it), prefix)

\* next() with a default instead of StopIteration.
get_latest_releases_default(names) ==
    LET u == NextMatch(Reverse(names), UbuntuPrefix)
        b == NextMatch(u.rest, BugswarmPrefix)
    IN  [ok |-> TRUE, ubuntu |-> u.name, bugswarm |-> b.name]

\* Both next() calls draw from the one iterator `tagnames`.
get_latest_releases(names) ==
    LET u == NextMatch(Reverse(names), UbuntuPrefix)
        b == NextMatch(u.rest, BugswarmPrefix)
    IN  [ok |-> u.found /\ b.found, ubuntu |-> u.name, bugswarm |-> b.name]

----------------------------------------------------------------------------
\* get_scripts_in_template

NoPath == <<>>

FileStep == [kind |-> "file", keys |-> {}, script |-> NoPath, scripts |-> <<>>]

ShellStep(keys, script, scripts) ==
    [kind |-> "shell", keys |-> keys, script |-> script, scripts |-> scripts]

ScriptLists == SeqsUpTo(TemplatePaths, MaxScriptsPerStep)

StepValues ==
    {FileStep}
    \cup {ShellStep({}, NoPath, <<>>)}
    \cup {ShellStep({"script"}, p, <<>>) : p \in TemplatePaths}
    \cup {ShellStep({"scripts"}, NoPath, l) : l \in ScriptLists}
    \cup {ShellStep({"script", "scripts"}, p, l) : p \in TemplatePaths, l \in ScriptLists}

Templates == SeqsUpTo(StepValues, MaxSteps)

\* str.replace(old, new) on a chunk sequence: every occurrence, left to right.
RECURSIVE Replace(_, _, _)
Replace(path, old, new) ==
    IF path = <<>> THEN <<>>
    ELSE IF Head(path) = old THEN <<new>> \o Replace(Tail(path), old, new)
         ELSE <<Head(path)>> \o Replace(Tail(path), old, new)

RewritePathFirstOnly(path) ==
    IF path # <<>> /\ Head(path) = TOKEN THEN <<REPO>> \o Tail(path) ELSE path

RewritePath(path) == Replace(path, TOKEN, REPO)

\* One iteration of `for step in steps`: what the step appends to scripts_used.
StepScriptsBoth(step) ==
    IF step.kind # "shell" THEN <<>>
    ELSE (IF "script" \in step.keys THEN <<step.script>> ELSE <<>>)
         \o (IF "scripts" \in step.keys THEN step.scripts ELSE <<>>)

StepScripts(step) ==
    IF step.kind # "shell" THEN <<>>
    ELSE IF "script" \in step.keys THEN <<step.script>>
    ELSE IF "scripts" \in step.keys THEN step.scripts
    ELSE <<>>

RECURSIVE CollectScripts(_)
CollectScripts(steps) ==
    IF steps = <<>> THEN <<>>
    ELSE StepScripts(Head(steps)) \o CollectScripts(Tail(steps))

RewriteAll(paths) == [i \in 1..Len(paths) |-> RewritePath(paths[i])]

get_scripts_in_template(steps) == RewriteAll(CollectScripts(steps))

\* set(get_scripts_in_template(22) + get_scripts_in_template(20) + get_helper_scripts())
DependencySet(t22, t20, helpers) ==
    Range(get_scripts_in_template(t22) \o get_scripts_in_template(t20) \o helpers)

HelperListings == {<<>>, <<HelperH>>}

MainTemplates ==
    {<<>>,
     <<FileStep, ShellStep({"script"}, TemplateScriptA, <<>>)>>,
     <<ShellStep({"scripts"}, NoPath, <<ScriptB>>)>>}

----------------------------------------------------------------------------
\* extract_jq_queries

CALL == "$(get_toolset_value "
SQ == "'"
DQ == "\""
RP == ")"
NL == "\n"
QueryAB == "a.b"
QueryCD == "c.d"

\* `.` matches every character but a newline.
SameLine(t, a, b) == \A k \in a..b : t[k] # NL

SetMax(S) == CHOOSE x \in S : \A y \in S : y <= x
SetMin(S) == CHOOSE x \in S : \A y \in S : x <= y

\* Where a quoted alternative  q(.*)q\)  can end when the opening quote is at
\* position o: positions j of a closing quote followed by `)` on the same line.
QuotedEnds(t, o, q) ==
    {j \in (o + 1)..(Len(t) - 1) : t[j] = q /\ t[j + 1] = RP /\ SameLine(t, o + 1, j - 1)}

\* Where the bare alternative  (.*?)\)  can end when the argument starts at a.
BareEnds(t, a) ==
    {j \in a..Len(t) : t[j] = RP /\ SameLine(t, a, j - 1)}

NoMatch == [ok |-> FALSE, last |-> 0, groups |-> <<NoneVal, NoneVal, NoneVal>>]

\* The regular expression  \$\(get_toolset_value (?:'(.*)'|"(.*)"|(.*?))\)
\* tried at position i: the alternatives in order, `.*` greedy (the last
\* closing quote that lets the rest match), `.*?` lazy (the first `)`).
MatchAt(t, i) ==
    IF i > Len(t) \/ t[i] # CALL THEN NoMatch
    ELSE IF i + 1 <= Len(t) /\ t[i + 1] = SQ /\ QuotedEnds(t, i + 1, SQ) # {}
         THEN LET j == SetMax(QuotedEnds(t, i + 1, SQ))
              IN  [ok |-> TRUE, last |-> j + 1,
                   groups |-> <<SubSeq(t, i + 2, j - 1), NoneVal, NoneVal>>]
    ELSE IF i + 1 <= Len(t) /\ t[i + 1] = DQ /\ QuotedEnds(t, i + 1, DQ) # {}
         THEN LET j == SetMax(QuotedEnds(t, i + 1, DQ))
              IN  [ok |-> TRUE, last |-> j + 1,
                   groups |-> <<NoneVal, SubSeq(t, i + 2, j - 1), NoneVal>>]
    ELSE IF BareEnds(t, i + 1) # {}
         THEN LET j == SetMin(BareEnds(t, i + 1))
              IN  [ok |-> TRUE, last |-> j,
                   groups |-> <<NoneVal, NoneVal, SubSeq(t, i + 1, j - 1)>>]
    ELSE NoMatch

\* next(group for group in match.groups() if group is not None)
FirstGroup(groups) ==
    IF groups[1] # NoneVal THEN groups[1]
    ELSE IF groups[2] # NoneVal THEN groups[2]
    ELSE groups[3]

\* re.finditer: non-overlapping matches, scanning from the left.
RECURSIVE FindQueries(_, _)
FindQueries(t, i) ==
    IF i > Len(t) THEN <<>>
    ELSE LET m == MatchAt(t, i)
         IN  IF m.ok THEN <<FirstGroup(m.groups)>> \o FindQueries(t, m.last + 1)
             ELSE FindQueries(t, i + 1)

\* The whole function on the contents of the scripts, in iteration order.
RECURSIVE extract_jq_queries(_)
extract_jq_queries(texts) ==
    IF texts = <<>> THEN <<>>
    ELSE FindQueries(Head(texts), 1) \o extract_jq_queries(Tail(texts))

\* Script texts: lines made of lookup calls in the three quoting forms.
SQCall == <<CALL, SQ, QueryAB, SQ, RP>>
DQCall == <<CALL, DQ, QueryAB, DQ, RP>>
BareCall == <<CALL, QueryAB, RP>>
Segments == {SQCall, DQCall, BareCall, <<NL>>, <<"echo ">>}

RECURSIVE Flatten(_)
Flatten(ss) == IF ss = <<>> THEN <<>> ELSE Head(ss) \o Flatten(Tail(ss))

Texts == {Flatten(ss) : ss \in SeqsUpTo(Segments, MaxSegments)}

\* Script texts that main reads.
MainTexts ==
    {<<"echo ">>,
     <<CALL, SQ, QueryAB, SQ, RP>>,
     <<"echo ", CALL, QueryCD, RP, NL>>}

----------------------------------------------------------------------------
\* compare_toolset_values

MainQueries == {<<QueryAB>>, <<QueryCD>>}
Results == {<<"3.11">>, <<"3.12">>}
Documents == [MainQueries -> Results]

\* A variable that holds no parsed document.
NoDoc == [q \in MainQueries |-> <<>>]

\* What a toolset file holds at a commit: text that json.loads accepts, giving
\* a document, or text that it rejects.
JsonText(doc) == [valid |-> TRUE, doc |-> doc]
BadJson == [valid |-> FALSE, doc |-> NoDoc]
FileContents == {JsonText(d) : d \in Documents} \cup {BadJson}

\* jq.compile(query).input_value(doc).all()
JqAll(query, doc) == doc[query]

DifferencesFirstOnly(queries, d1, d2) ==
    IF queries = <<>> THEN <<>>
    ELSE LET q == Head(queries)
             r1 == JqAll(q, d1)
             r2 == JqAll(q, d2)
         IN  IF r1 # r2 THEN <<<<q, r1, r2>>>> ELSE <<>>

\* The loop `for query in queries` over the two parsed documents.
RECURSIVE Differences(_, _, _)
Differences(queries, d1, d2) ==
    IF queries = <<>> THEN <<>>
    ELSE LET q == Head(queries)
             r1 == JqAll(q, d1)
             r2 == JqAll(q, d2)
         IN  (IF r1 # r2 THEN <<<<q, r1, r2>>>> ELSE <<>>)
             \o Differences(Tail(queries), d1, d2)

----------------------------------------------------------------------------
\* main

NoFile == <<>>

Event(kind, file, items) == [kind |-> kind, file |-> file, items |-> items]

Printed(kind) == {i \in 1..Len(output) : output[i].kind = kind}

\* Every toolset file, changed or not.
AllToolsets(S) == <<ubuntu20_toolset, ubuntu22_toolset>>

\* The toolset paths in descending order.
ReversedToolsets(S) == SelectSeq(<<ubuntu22_toolset, ubuntu20_toolset>>, LAMBDA f : f \in S)

\* sorted() of a set of toolset paths: '...toolset-2004.json' < '...toolset-2204.json'.
SortedToolsets(S) == SelectSeq(<<ubuntu20_toolset, ubuntu22_toolset>>, LAMBDA f : f \in S)

EscalateKeep(rec, level) == rec

\* recommendation = max(recommendation, level)
Escalate(rec, level) == Max(rec, level)

\* The text printed after '=== RESULTS ==='.
ResultsMessage(rec, bugswarm, ubuntu) ==
    IF rec = 0 THEN <<"No noteworthy changes upstream.",
                      "There is no reason to rebuild the images.">>
    ELSE IF rec = 1 THEN <<"There are some changes upstream that could be significant.",
                           "Check the diffs from upstream before deciding whether to rebuild the images:",
                           <<"  git diff ", bugswarm, "...", ubuntu, " -- <paths> ">> >>
    ELSE IF rec = 2 THEN <<"There are significant changes upstream.",
                           "It's probably a good idea to rebuild the images.">>
    ELSE <<>>

MainLocals ==
    /\ output = <<>>
    /\ exit_code = -1
    /\ error = "none"
    /\ tagnames = <<>>
    /\ ubuntu_tag = NoTag
    /\ bugswarm_tag = NoTag
    /\ changed_files = {}
    /\ scripts_used = {}
    /\ changed_scripts = {}
    /\ changed_hcls = {}
    /\ used_toolset_queries = <<>>
    /\ changed_toolsets = {}
    /\ todo = <<>>
    /\ toolset_json = NoFile
    /\ toolset_1 = NoDoc
    /\ toolset_2 = NoDoc
    /\ toolset_diffs = <<>>
    /\ recommendation = 0

DepIdle ==
    /\ template22 = <<>>
    /\ template20 = <<>>
    /\ helper_scripts = <<>>

TmplIdle ==
    /\ tmpl_scripts_used = <<>>
    /\ paths_in_repo = <<>>

RxIdle ==
    /\ contents = <<>>
    /\ toolset_queries = <<>>

Init == pc = "start" /\ MainLocals /\ DepIdle /\ TmplIdle /\ RxIdle

\* An uncaught exception: traceback on stderr, exit status 1.
Raise(e) ==
    /\ pc' = "failed"
    /\ error' = e
    /\ exit_code' = 1

\* Lines 122-125: print, then fetch the upstream remote.
Fetch ==
    /\ pc = "start"
    /\ output' = Append(output, Event("FETCHING", NoFile, {}))
    /\ \/ /\ pc' = "fetched"
          /\ UNCHANGED <<error, exit_code>>
       \/ Raise("GitCommandError")
    /\ UNCHANGED <<tagnames, ubuntu_tag, bugswarm_tag, changed_files, scripts_used,
                   changed_scripts, changed_hcls, used_toolset_queries,
                   changed_toolsets, todo, toolset_json, toolset_1, toolset_2,
                   toolset_diffs, recommendation, depVars, tmplVars, rxVars>>

\* Line 35: the tag names, sorted by author date.
ListTags ==
    /\ pc = "fetched"
    /\ \E names \in TagLists : tagnames' = names
    /\ pc' = "tags_listed"
    /\ UNCHANGED <<output, exit_code, error, ubuntu_tag, bugswarm_tag, changed_files,
                   scripts_used, changed_scripts, changed_hcls, used_toolset_queries,
                   changed_toolsets, todo, toolset_json, toolset_1, toolset_2,
                   toolset_diffs, recommendation, depVars, tmplVars, rxVars>>

\* Lines 36-38 and 126: the two next() calls; on return the local list is gone.
ResolveTags ==
    /\ pc = "tags_listed"
    /\ LET r == get_latest_releases(tagnames)
       IN  IF r.ok
           THEN /\ ubuntu_tag' = r.ubuntu
                /\ bugswarm_tag' = r.bugswarm
                /\ tagnames' = <<>>
                /\ pc' = "resolved"
                /\ UNCHANGED <<error, exit_code>>
           ELSE /\ Raise("StopIteration")
                /\ UNCHANGED <<ubuntu_tag, bugswarm_tag, tagnames>>
    /\ UNCHANGED <<output, changed_files, scripts_used, changed_scripts, changed_hcls,
                   used_toolset_queries, changed_toolsets, todo, toolset_json,
                   toolset_1, toolset_2, toolset_diffs, recommendation,
                   depVars, tmplVars, rxVars>>

\* Lines 130-131: merge base (first of the list) and the changed files.
DiffUpstream ==
    /\ pc = "resolved"
    /\ \/ /\ \E files \in SUBSET RepoFiles : changed_files' = files
          /\ pc' = "diffed"
          /\ UNCHANGED <<error, exit_code>>
       \/ /\ Raise("IndexError")
          /\ UNCHANGED changed_files
    /\ UNCHANGED <<output, tagnames, ubuntu_tag, bugswarm_tag, scripts_used,
                   changed_scripts, changed_hcls, used_toolset_queries,
                   changed_toolsets, todo, toolset_json, toolset_1, toolset_2,
                   toolset_diffs, recommendation, depVars, tmplVars, rxVars>>

\* Lines 134-138: the scripts of both templates plus the helper scripts.
GatherScripts ==
    /\ pc = "diffed"
    /\ \/ /\ \E t22 \in MainTemplates, t20 \in MainTemplates, helpers \in HelperListings :
                scripts_used' = DependencySet(t22, t20, helpers)
          /\ pc' = "gathered"
          /\ UNCHANGED <<error, exit_code>>
       \/ /\ Raise("TemplateParseError")
          /\ UNCHANGED scripts_used
    /\ UNCHANGED <<output, tagnames, ubuntu_tag, bugswarm_tag, changed_files,
                   changed_scripts, changed_hcls, used_toolset_queries,
                   changed_toolsets, todo, toolset_json, toolset_1, toolset_2,
                   toolset_diffs, recommendation, depVars, tmplVars, rxVars>>

\* Lines 141-147.
CheckScripts ==
    /\ pc = "gathered"
    /\ changed_scripts' = scripts_used \cap changed_files
    /\ IF changed_scripts' # {}
       THEN /\ recommendation' = Escalate(recommendation, 1)
            /\ output' = Append(output, Event("SCRIPTS", NoFile, changed_scripts'))
       ELSE UNCHANGED <<recommendation, output>>
    /\ pc' = "scripts_checked"
    /\ UNCHANGED <<exit_code, error, tagnames, ubuntu_tag, bugswarm_tag, changed_files,
                   scripts_used, changed_hcls, used_toolset_queries, changed_toolsets,
                   todo, toolset_json, toolset_1, toolset_2, toolset_diffs,
                   depVars, tmplVars, rxVars>>

\* The template check without its report.
CheckTemplatesSilent ==
    /\ pc = "scripts_checked"
    /\ changed_hcls' = {ubuntu22_hcl, ubuntu20_hcl} \cap changed_files
    /\ recommendation' = IF changed_hcls' # {} THEN Max(recommendation, 1) ELSE recommendation
    /\ pc' = "templates_checked"
    /\ UNCHANGED <<output, exit_code, error, tagnames, ubuntu_tag, bugswarm_tag,
                   changed_files, scripts_used, changed_scripts, used_toolset_queries,
                   changed_toolsets, todo, toolset_json, toolset_1, toolset_2,
                   toolset_diffs, depVars, tmplVars, rxVars>>

\* Lines 150-156.
CheckTemplates ==
    /\ pc = "scripts_checked"
    /\ changed_hcls' = {ubuntu22_hcl, ubuntu20_hcl} \cap changed_files
    /\ IF changed_hcls' # {}
       THEN /\ recommendation' = Escalate(recommendation, 1)
            /\ output' = Append(output, Event("TEMPLATES", NoFile, changed_hcls'))
       ELSE UNCHANGED <<recommendation, output>>
    /\ pc' = "templates_checked"
    /\ UNCHANGED <<exit_code, error, tagnames, ubuntu_tag, bugswarm_tag, changed_files,
                   scripts_used, changed_scripts, used_toolset_queries, changed_toolsets,
                   todo, toolset_json, toolset_1, toolset_2, toolset_diffs,
                   depVars, tmplVars, rxVars>>

\* The orders in which a set can be iterated.
Orderings(S) == {s \in [1..Cardinality(S) -> S] : Range(s) = S}

\* Lines 159-160 and the sorted() of line 164.
ExtractQueries ==
    /\ pc = "templates_checked"
    /\ \E order \in Orderings(scripts_used), text \in [scripts_used -> MainTexts] :
          used_toolset_queries' =
              extract_jq_queries([i \in 1..Len(order) |-> text[order[i]]])
    /\ changed_toolsets' = {ubuntu20_toolset, ubuntu22_toolset} \cap changed_files
    /\ todo' = SortedToolsets(changed_toolsets')
    /\ pc' = "toolset_loop"
    /\ UNCHANGED <<output, exit_code, error, tagnames, ubuntu_tag, bugswarm_tag,
                   changed_files, scripts_used, changed_scripts, changed_hcls,
                   toolset_json, toolset_1, toolset_2, toolset_diffs, recommendation,
                   depVars, tmplVars, rxVars>>

\* Line 164 and lines 97-98: the next changed toolset file, read and parsed
\* at the merge base and at the upstream tag.
LoadToolsets ==
    /\ pc = "toolset_loop"
    /\ todo # <<>>
    /\ toolset_json' = Head(todo)
    /\ todo' = Tail(todo)
    /\ \E c1 \in FileContents, c2 \in FileContents :
          IF ~c1.valid
          THEN /\ Raise("JSONDecodeError")
               /\ UNCHANGED <<toolset_1, toolset_2>>
          ELSE IF ~c2.valid
          THEN /\ Raise("JSONDecodeError")
               /\ toolset_1' = c1.doc
               /\ UNCHANGED toolset_2
          ELSE /\ toolset_1' = c1.doc
               /\ toolset_2' = c2.doc
               /\ pc' = "comparing"
               /\ UNCHANGED <<error, exit_code>>
    /\ UNCHANGED <<output, tagnames, ubuntu_tag, bugswarm_tag, changed_files,
                   scripts_used, changed_scripts, changed_hcls, used_toolset_queries,
                   changed_toolsets, toolset_diffs, recommendation,
                   depVars, tmplVars, rxVars>>

\* Lines 100-109: the loop over the queries.
CompareToolset ==
    /\ pc = "comparing"
    /\ toolset_diffs' = Differences(used_toolset_queries, toolset_1, toolset_2)
    /\ pc' = "compared"
    /\ UNCHANGED <<output, exit_code, error, tagnames, ubuntu_tag, bugswarm_tag,
                   changed_files, scripts_used, changed_scripts, changed_hcls,
                   used_toolset_queries, changed_toolsets, todo, toolset_json,
                   toolset_1, toolset_2, recommendation, depVars, tmplVars, rxVars>>

\* Lines 165-174: back in main, report the differences of this file.
ReportToolset ==
    /\ pc = "compared"
    /\ IF toolset_diffs # <<>>
       THEN /\ recommendation' = Escalate(recommendation, 2)
            /\ output' = Append(output, Event("VALUES", toolset_json, toolset_diffs))
       ELSE UNCHANGED <<recommendation, output>>
    /\ toolset_1' = NoDoc
    /\ toolset_2' = NoDoc
    /\ pc' = "toolset_loop"
    /\ UNCHANGED <<exit_code, error, tagnames, ubuntu_tag, bugswarm_tag, changed_files,
                   scripts_used, changed_scripts, changed_hcls, used_toolset_queries,
                   changed_toolsets, todo, toolset_json, toolset_diffs,
                   depVars, tmplVars, rxVars>>

\* Lines 176-187.
PrintResults ==
    /\ pc = "toolset_loop"
    /\ todo = <<>>
    /\ output' = Append(output, Event("RESULTS", NoFile,
                        ResultsMessage(recommendation, bugswarm_tag, ubuntu_tag)))
    /\ pc' = "returned"
    /\ UNCHANGED <<exit_code, error, tagnames, ubuntu_tag, bugswarm_tag, changed_files,
                   scripts_used, changed_scripts, changed_hcls, used_toolset_queries,
                   changed_toolsets, todo, toolset_json, toolset_1, toolset_2,
                   toolset_diffs, recommendation, depVars, tmplVars, rxVars>>

\* Line 191: sys.exit(main()) with main returning None.
Exit ==
    /\ pc = "returned"
    /\ exit_code' = 0
    /\ pc' = "exited"
    /\ UNCHANGED <<output, error, tagnames, ubuntu_tag, bugswarm_tag, changed_files,
                   scripts_used, changed_scripts, changed_hcls, used_toolset_queries,
                   changed_toolsets, todo, toolset_json, toolset_1, toolset_2,
                   toolset_diffs, recommendation, depVars, tmplVars, rxVars>>

Next ==
    \/ Fetch
    \/ ListTags
    \/ ResolveTags
    \/ DiffUpstream
    \/ GatherScripts
    \/ CheckScripts
    \/ CheckTemplates
    \/ ExtractQueries
    \/ LoadToolsets
    \/ CompareToolset
    \/ ReportToolset
    \/ PrintResults
    \/ Exit

Spec == Init /\ [][Next]_vars

----------------------------------------------------------------------------
\* The dependency set of lines 134-138 on given templates and helper listing.

InitDeps ==
    /\ pc = "deps_start"
    /\ MainLocals
    /\ template22 \in Templates
    /\ template20 \in MainTemplates
    /\ helper_scripts \in HelperListings
    /\ TmplIdle
    /\ RxIdle

BuildDependencySet ==
    /\ pc = "deps_start"
    /\ scripts_used' = DependencySet(template22, template20, helper_scripts)
    /\ pc' = "deps_done"
    /\ UNCHANGED <<output, exit_code, error, tagnames, ubuntu_tag, bugswarm_tag,
                   changed_files, changed_scripts, changed_hcls, used_toolset_queries,
                   changed_toolsets, todo, toolset_json, toolset_1, toolset_2,
                   toolset_diffs, recommendation, depVars, tmplVars, rxVars>>

NextDeps == BuildDependencySet

SpecDeps == InitDeps /\ [][NextDeps]_vars

----------------------------------------------------------------------------
\* The path rewrite of lines 62-64 on the collected script paths.

PathChunks == {TOKEN, REPO, "/scripts", "/a.sh"}

Paths == UNION {[1..k -> PathChunks] : k \in 1..MaxPathLen}

InitRewrite ==
    /\ pc = "collected"
    /\ MainLocals
    /\ DepIdle
    /\ tmpl_scripts_used \in SeqsUpTo(Paths, MaxCollected)
    /\ paths_in_repo = <<>>
    /\ RxIdle

RewritePaths ==
    /\ pc = "collected"
    /\ paths_in_repo' = RewriteAll(tmpl_scripts_used)
    /\ pc' = "rewritten"
    /\ UNCHANGED <<output, exit_code, error, tagnames, ubuntu_tag, bugswarm_tag,
                   changed_files, scripts_used, changed_scripts, changed_hcls,
                   used_toolset_queries, changed_toolsets, todo, toolset_json,
                   toolset_1, toolset_2, toolset_diffs, recommendation,
                   depVars, tmpl_scripts_used, rxVars>>

NextRewrite == RewritePaths

SpecRewrite == InitRewrite /\ [][NextRewrite]_vars

----------------------------------------------------------------------------
\* The scan of lines 75-85 on the contents of one script.

InitRegex ==
    /\ pc = "scan"
    /\ MainLocals
    /\ DepIdle
    /\ TmplIdle
    /\ contents \in Texts
    /\ toolset_queries = <<>>

ScanScript ==
    /\ pc = "scan"
    /\ toolset_queries' = toolset_queries \o extract_jq_queries(<<contents>>)
    /\ pc' = "scanned"
    /\ UNCHANGED <<output, exit_code, error, tagnames, ubuntu_tag, bugswarm_tag,
                   changed_files, scripts_used, changed_scripts, changed_hcls,
                   used_toolset_queries, changed_toolsets, todo, toolset_json,
                   toolset_1, toolset_2, toolset_diffs, recommendation,
                   depVars, tmplVars, contents>>

NextRegex == ScanScript

SpecRegex == InitRegex /\ [][NextRegex]_vars

----------------------------------------------------------------------------
\* Properties.

HasMatch(names, prefix) == \E i \in 1..Len(names) : StartsWith(names[i], prefix)

\* The most recent tag of a family: the last one in author-date order.
Latest(names, prefix) ==
    names[SetMax({i \in 1..Len(names) : StartsWith(names[i], prefix)})]

Sections == {"SCRIPTS", "TEMPLATES", "VALUES"}

Completed == pc \in {"returned", "exited"}

\* C1: whenever both prefixes have a match in the tag list, tag resolution
\* succeeds and returns the most recent tag of each prefix, each found by its
\* own scan of the reversed list, whatever the order of the two families.
C1_LatestPerPrefix ==
    [][(pc = "tags_listed" /\ HasMatch(tagnames, UbuntuPrefix)
                           /\ HasMatch(tagnames, BugswarmPrefix))
          => /\ pc' = "resolved"
             /\ ubuntu_tag' = Latest(tagnames, UbuntuPrefix)
             /\ bugswarm_tag' = Latest(tagnames, BugswarmPrefix)]_vars

\* The levels that the three checks of a completed run triggered.
TriggeredLevel ==
    IF Printed("VALUES") # {} THEN 2
    ELSE IF changed_scripts # {} \/ changed_hcls # {} THEN 1
    ELSE 0

\* C2: when main has completed, the recommendation is 2 exactly when a
\* Difference was recorded for a changed toolset file, otherwise 1 exactly when
\* a dependency script or a template changed, otherwise 0; and no step of the
\* run lowers the running value.
C2_MaxOfChecks ==
    /\ [](Completed => recommendation = TriggeredLevel)
    /\ [][recommendation' >= recommendation]_vars

C2_Witness ==
    /\ pc = "exited"
    /\ recommendation = 2
    /\ changed_scripts # {}
    /\ changed_hcls # {}

\* The queries of the extracted list whose results differ between the documents.
DifferingQueries ==
    {q \in Range(used_toolset_queries) : JqAll(q, toolset_1) # JqAll(q, toolset_2)}

DiffQueries == {toolset_diffs[i][1] : i \in 1..Len(toolset_diffs)}

\* C3 as stated: after the comparison of a changed toolset file the recorded
\* Differences hold exactly one entry per distinct differing query, also when
\* the query list holds a query several times.
C3_OnePerDistinctQuery ==
    pc = "compared" =>
        /\ DiffQueries = DifferingQueries
        /\ Len(toolset_diffs) = Cardinality(DifferingQueries)

Differs(q) == JqAll(q, toolset_1) # JqAll(q, toolset_2)

\* C3 (amended): the comparison records one Difference (query, old, new) per
\* occurrence in the query list of a query whose results differ, in list
\* order; the set of recorded queries is the set of distinct differing queries.
C3_OnePerOccurrence ==
    pc = "compared" =>
        LET differing == SelectSeq(used_toolset_queries, Differs)
        IN  /\ Len(toolset_diffs) = Len(differing)
            /\ \A i \in 1..Len(differing) :
                  toolset_diffs[i] = <<differing[i], JqAll(differing[i], toolset_1),
                                       JqAll(differing[i], toolset_2)>>
            /\ DiffQueries = DifferingQueries

C3_Witness ==
    /\ pc = "compared"
    /\ Len(toolset_diffs) = 3
    /\ toolset_diffs[1][1] = toolset_diffs[3][1]
    /\ toolset_diffs[1][1] # toolset_diffs[2][1]

Toolsets == {ubuntu20_toolset, ubuntu22_toolset}

\* C4: only changed files are examined: a toolset file is loaded and compared
\* only if it is in the changed-file set, reported scripts and templates are
\* in the changed-file set, a parse failure or a REBUILD comes from a changed
\* toolset file, and with an empty changed-file set the recommendation stays
\* NONE and no section is printed.
C4_DiffDriven ==
    /\ toolset_json # NoFile => toolset_json \in Toolsets \cap changed_files
    /\ \A i \in 1..Len(output) :
          /\ output[i].kind \in {"SCRIPTS", "TEMPLATES"} => output[i].items \subseteq changed_files
          /\ output[i].kind = "VALUES" => output[i].file \in Toolsets \cap changed_files
    /\ error = "JSONDecodeError" => toolset_json \in changed_files
    /\ recommendation = 2 =>
          \E i \in 1..Len(output) :
              output[i].kind = "VALUES" /\ output[i].file \in changed_files
    /\ changed_files = {} =>
          /\ recommendation = 0
          /\ \A i \in 1..Len(output) : output[i].kind \notin Sections

C4_Witness ==
    /\ pc = "exited"
    /\ changed_files = {}
    /\ scripts_used = {ScriptA, HelperH}
    /\ Len(output) = 2
    /\ output[2].kind = "RESULTS"
    /\ recommendation = 0

\* C5: when a changed toolset file fails to parse, the script and template
\* checks have already completed and their findings have been printed: the
\* SCRIPTS section iff changed dependency scripts exist, the TEMPLATES section
\* iff changed templates exist.
C5_ChecksReportedBeforeParseFailure ==
    error = "JSONDecodeError" =>
        /\ pc = "failed"
        /\ changed_scripts = scripts_used \cap changed_files
        /\ changed_hcls = {ubuntu22_hcl, ubuntu20_hcl} \cap changed_files
        /\ changed_scripts # {} <=>
              \E i \in 1..Len(output) :
                  output[i].kind = "SCRIPTS" /\ output[i].items = changed_scripts
        /\ changed_hcls # {} <=>
              \E i \in 1..Len(output) :
                  output[i].kind = "TEMPLATES" /\ output[i].items = changed_hcls

C5_Witness ==
    /\ error = "JSONDecodeError"
    /\ changed_scripts # {}
    /\ changed_hcls # {}
    /\ Printed("SCRIPTS") # {}
    /\ Printed("TEMPLATES") # {}

\* C6: a step of tag resolution on a tag list in which either prefix has no
\* match ends the run with an error: nothing but the fetch message has been
\* printed, no changed-file set was computed, the exit status is not 0, and
\* the failed process takes no further step.
C6_MissingTagAborts ==
    [][/\ pc # "failed"
       /\ (pc = "tags_listed" /\ (~HasMatch(tagnames, UbuntuPrefix)
                                  \/ ~HasMatch(tagnames, BugswarmPrefix)))
             => /\ pc' = "failed"
                /\ error' = "StopIteration"
                /\ exit_code' > 0
                /\ changed_files' = {}
                /\ \A i \in 1..Len(output') : output'[i].kind = "FETCHING"]_vars

C6_Witness ==
    /\ pc = "failed"
    /\ error = "StopIteration"
    /\ HasMatch(tagnames, UbuntuPrefix)
    /\ ~HasMatch(tagnames, BugswarmPrefix)
    /\ exit_code = 1

Rank(kind) ==
    IF kind = "FETCHING" THEN 0
    ELSE IF kind = "SCRIPTS" THEN 1
    ELSE IF kind = "TEMPLATES" THEN 2
    ELSE IF kind = "VALUES" THEN 3
    ELSE 4

\* The report of a completed run: sections in the fixed order, each of SCRIPTS
\* and TEMPLATES at most once, the toolset sections in sorted path order, the
\* RESULTS block once and last, exit status 0.
ReportInOrder ==
    /\ \A i, j \in 1..Len(output) :
          i < j => /\ Rank(output[i].kind) <= Rank(output[j].kind)
                   /\ output[i].kind = output[j].kind =>
                         /\ output[i].kind = "VALUES"
                         /\ output[i].file = ubuntu20_toolset
                         /\ output[j].file = ubuntu22_toolset
    /\ Cardinality(Printed("RESULTS")) = 1
    /\ output[Len(output)].kind = "RESULTS"
    /\ pc = "exited" => exit_code = 0

\* The tags of a reference run.
RefBugswarm == Tag(BugswarmPrefix, "1")
RefUbuntu == Tag(UbuntuPrefix, "1")

\* C7 as stated: a completed run reports in the fixed order, and the text of
\* its RESULTS block is a function of the recommendation alone: the same text
\* that the reference run prints for that recommendation.
C7_MessageByOrdinalOnly ==
    Completed =>
        /\ ReportInOrder
        /\ output[Len(output)].items = ResultsMessage(recommendation, RefBugswarm, RefUbuntu)

FixedLines(rec) ==
    IF rec = 0 THEN <<"No noteworthy changes upstream.",
                      "There is no reason to rebuild the images.">>
    ELSE IF rec = 1 THEN <<"There are some changes upstream that could be significant.",
                           "Check the diffs from upstream before deciding whether to rebuild the images:">>
    ELSE <<"There are significant changes upstream.",
           "It's probably a good idea to rebuild the images.">>

\* C7 (amended): a completed run reports in the fixed order, RESULTS once and
\* last, exit status 0; the fixed lines of the RESULTS block are determined by
\* the recommendation, and for REVIEW the block has one more line, a git diff
\* command that names the resolved bugswarm and ubuntu tags.
C7_OrderedReport ==
    Completed =>
        /\ ReportInOrder
        /\ LET msg == output[Len(output)].items
           IN  /\ SubSeq(msg, 1, 2) = FixedLines(recommendation)
               /\ Len(msg) = IF recommendation = 1 THEN 3 ELSE 2
               /\ recommendation = 1 =>
                     /\ msg[3][2] = bugswarm_tag
                     /\ msg[3][4] = ubuntu_tag

C7_Witness ==
    /\ pc = "exited"
    /\ Len(output) = 6
    /\ recommendation = 2

HasToken(path) == \E i \in 1..Len(path) : path[i] = TOKEN

\* C8 as stated: a collected path that contains the placeholder token is
\* rewritten to a path that starts with the repository prefix, a path without
\* the token is unchanged, and rewriting again changes nothing.
C8_RewrittenStartsWithPrefix ==
    pc = "rewritten" =>
        \A i \in 1..Len(tmpl_scripts_used) :
            /\ HasToken(tmpl_scripts_used[i]) => paths_in_repo[i][1] = REPO
            /\ ~HasToken(tmpl_scripts_used[i]) => paths_in_repo[i] = tmpl_scripts_used[i]
            /\ RewritePath(paths_in_repo[i]) = paths_in_repo[i]

\* C8 (amended): the rewrite replaces every occurrence of the token by the
\* repository prefix and leaves the rest of the path in place, so the result
\* holds no token and starts with the prefix when the path starts with the
\* token; a path without the token is unchanged; rewriting again changes
\* nothing.
C8_EveryTokenReplaced ==
    pc = "rewritten" =>
        /\ Len(paths_in_repo) = Len(tmpl_scripts_used)
        /\ \A i \in 1..Len(tmpl_scripts_used) :
              LET old == tmpl_scripts_used[i]
                  new == paths_in_repo[i]
              IN  /\ Len(new) = Len(old)
                  /\ \A k \in 1..Len(old) :
                        new[k] = IF old[k] = TOKEN THEN REPO ELSE old[k]
                  /\ ~HasToken(new)
                  /\ old[1] = TOKEN => new[1] = REPO
                  /\ ~HasToken(old) => new = old
        /\ RewriteAll(paths_in_repo) = paths_in_repo

C8_Witness ==
    /\ pc = "rewritten"
    /\ Len(tmpl_scripts_used) = 1
    /\ tmpl_scripts_used[1] = <<TOKEN, "/scripts", TOKEN>>
    /\ paths_in_repo[1] = <<REPO, "/scripts", REPO>>

CountCalls(t) == Cardinality({i \in 1..Len(t) : t[i] = CALL})

\* C9: the scan of a script yields one query per occurrence of the lookup
\* call, in any of the three quoting forms, and every query is a.b with the
\* quotes stripped; a script without a call yields no query.
C9_OneQueryPerCall ==
    pc = "scanned" =>
        /\ Len(toolset_queries) = CountCalls(contents)
        /\ \A i \in 1..Len(toolset_queries) : toolset_queries[i] = <<QueryAB>>

\* What a step contributes, whatever its position among the steps.
Contribution(step) ==
    IF step.kind = "shell" /\ "script" \in step.keys THEN {step.script}
    ELSE IF step.kind = "shell" /\ "scripts" \in step.keys THEN Range(step.scripts)
    ELSE {}

====
